---- MODULE Spec2Model ----
(***************************************************************************)
(* Scheduled dispatch engine of socialai-backend.                          *)
(*                                                                         *)
(* State: the posts and platform_posts tables, the active account of each  *)
(* platform, the environment keys, the clock, and for every asynchronous   *)
(* handler (cron tick, publish-now request) its position and its locals.   *)
(*                                                                         *)
(* Node.js runs one handler at a time: a handler keeps the event loop from *)
(* the moment it starts or resumes until it suspends in a network call of  *)
(* an adapter (axios.post) or returns.  "running" names the handler that   *)
(* holds the event loop; every other handler, request and timer waits      *)
(* while it is set.  Awaiting an already settled promise (demo mode, the   *)
(* return of publishPost) resumes in a microtask and lets nothing else in. *)
(*                                                                         *)
(* Time is counted in whole hours since a Monday 00:00 local time; stored  *)
(* timestamps are assumed to be ISO-8601 UTC strings, for which SQLite's   *)
(* text comparison is the comparison of instants.                          *)
(***************************************************************************)
EXTENDS Integers, Sequences, FiniteSets, TLC

VARIABLES posts, pp, social_accounts, envKeys, optimalTimes, planned, now, h, running

vars == <<posts, pp, social_accounts, envKeys, optimalTimes, planned, now, h, running>>

---------------------------------------------------------------------------
(* Bounds of the model *)

MaxPosts == 1
OverlapPosts == 2
PublishPosts == 2
BatchPosts == 11
MaxTime == 2

(* Rows of social_accounts *)
MaxAccounts == 3
PlannerHours == 168

(* Program constants *)

Limit == 10

---------------------------------------------------------------------------
(* Values *)

NULL == -1

(* A scheduled_at of a request that is a string but no date, such as '#':
   new Date(...) is an Invalid Date, and as text it sorts before every
   timestamp. *)
NaT == -2
None == "none"

(* The platforms column holds JSON text.  Arr(l) is a JSON array of platform
   names; NotIterable is any other JSON value the routes accept and store
   (a number, an object), over which for...of, map and forEach throw. *)
Arr(l) == [array |-> TRUE, items |-> l]
NotIterable == [array |-> FALSE, items |-> <<>>]

Statuses == {"draft", "scheduled", "processing", "published", "partial", "failed"}
Final == {"published", "partial", "failed"}

platformClients == {"facebook", "linkedin", "twitter", "instagram"}
AllPlatforms == platformClients \cup {"tiktok"}

TickIds == {"t1", "t2"}
PubIds == {"r1"}

Min(a, b) == IF a <= b THEN a ELSE b

Range(s) == {s[j] : j \in 1..Len(s)}

EmptyResults == [q \in {} |-> FALSE]

(* platform_posts rows a post is created with: one pending row per platform;
   a platforms value that is no array makes forEach throw after the post
   itself was inserted, which leaves the post without rows. *)
CreateRows(platforms) ==
  [q \in (IF platforms.array THEN Range(platforms.items) ELSE {}) |->
     [status |-> "pending", extId |-> FALSE, err |-> ""]]

(* The row written by INSERT INTO posts in the create route. *)
CreatePost(status, scheduled_at, platforms) ==
  [status |-> status, scheduled_at |-> scheduled_at, published_at |-> NULL,
   platforms |-> platforms, media |-> FALSE]

IdleHandler ==
  [pc |-> "idle", sel |-> <<>>, i |-> 0,
   post |-> [id |-> 0, platforms |-> Arr(<<>>), media |-> FALSE],
   k |-> 0, results |-> EmptyResults, n |-> 0, caught |-> FALSE]

---------------------------------------------------------------------------
(* Due-post selection: scheduler.js, the SELECT of processScheduledPosts *)

(* WHERE p.status = 'scheduled' AND p.scheduled_at <= ?  (NULL <= ? is not true) *)
DuePostsNoStatusFilter(t) ==
  {p \in DOMAIN posts : posts[p].scheduled_at # NULL /\ posts[p].scheduled_at <= t}

DuePostsOrProcessing(t) ==
  {p \in DOMAIN posts :
     /\ posts[p].status \in {"scheduled", "processing"}
     /\ posts[p].scheduled_at # NULL
     /\ posts[p].scheduled_at <= t}

DuePosts(t) ==
  {p \in DOMAIN posts :
     /\ posts[p].status = "scheduled"
     /\ posts[p].scheduled_at # NULL
     /\ posts[p].scheduled_at <= t}

RECURSIVE SortedSeqsDescending(_)
SortedSeqsDescending(S) ==
  IF S = {} THEN {<<>>}
  ELSE LET firsts == {p \in S : \A q \in S : posts[p].scheduled_at >= posts[q].scheduled_at}
       IN  UNION {{<<p>> \o s : s \in SortedSeqsDescending(S \ {p})} : p \in firsts}

(* ORDER BY p.scheduled_at ASC: every order of the rows that is ascending in
   scheduled_at; SQL leaves the order of rows with equal keys open. *)
RECURSIVE SortedSeqs(_)
SortedSeqs(S) ==
  IF S = {} THEN {<<>>}
  ELSE LET firsts == {p \in S : \A q \in S : posts[p].scheduled_at <= posts[q].scheduled_at}
       IN  UNION {{<<p>> \o s : s \in SortedSeqs(S \ {p})} : p \in firsts}

LimitRowsNewest(s) == SubSeq(s, Len(s) - Min(Limit, Len(s)) + 1, Len(s))

(* LIMIT 10 *)
LimitRows(s) == SubSeq(s, 1, Min(Limit, Len(s)))

(* The row object the tick keeps of a selected post (the SELECT's row): the tick
   dispatches from this copy, not from the stored row. *)
Snapshot(p) == [id |-> p, platforms |-> posts[p].platforms, media |-> posts[p].media]

Snapshots(s) == [j \in 1..Len(s) |-> Snapshot(s[j])]

SelectDue(t) == {Snapshots(LimitRows(s)) : s \in SortedSeqs(DuePosts(t))}

---------------------------------------------------------------------------
(* Aggregation: scheduler.js lines 36-40 *)

allSuccess(results) == \A q \in DOMAIN results : results[q]
anySuccess(results) == \E q \in DOMAIN results : results[q]

FinalStatusSwapped(results) ==
  IF allSuccess(results) THEN "published"
  ELSE IF anySuccess(results) THEN "failed" ELSE "partial"

FinalStatusRetrying(results) ==
  IF allSuccess(results) THEN "published"
  ELSE IF anySuccess(results) THEN "partial" ELSE "scheduled"

FinalStatus(results) ==
  IF allSuccess(results) THEN "published"
  ELSE IF anySuccess(results) THEN "partial" ELSE "failed"

PublishedAtForPublishedOnly(finalStatus, t) ==
  IF finalStatus = "published" THEN t ELSE NULL

(* published_at = CASE WHEN ? IN ('published','partial') THEN CURRENT_TIMESTAMP ELSE NULL END *)
PublishedAtFor(finalStatus, t) ==
  IF finalStatus \in {"published", "partial"} THEN t ELSE NULL

---------------------------------------------------------------------------
(* Optimal-time planner: scheduler.js lines 80-161 *)

DayNames == <<"Monday", "Tuesday", "Wednesday", "Thursday", "Friday", "Saturday", "Sunday">>

(* toLocaleDateString('en-US', {weekday: 'long'}) of the day with index d *)
dayName(d) == DayNames[(d % 7) + 1]

(* The tables of getOptimalPostingTimes, "industry-standard best times" *)
IndustryStandardTimes ==
  [facebook  |-> [bestDays |-> {"Tuesday", "Wednesday", "Thursday"}, bestHours |-> <<9, 13, 16>>],
   linkedin  |-> [bestDays |-> {"Tuesday", "Wednesday", "Thursday"}, bestHours |-> <<8, 10, 12>>],
   twitter   |-> [bestDays |-> {"Monday", "Tuesday", "Wednesday", "Thursday", "Friday"},
                  bestHours |-> <<8, 12, 17>>],
   instagram |-> [bestDays |-> {"Monday", "Wednesday", "Friday"}, bestHours |-> <<11, 13, 19>>]]

(* optimalTimes[platform] || optimalTimes.facebook *)
getOptimalPostingTimes(platform) ==
  IF platform \in DOMAIN optimalTimes THEN optimalTimes[platform] ELSE optimalTimes["facebook"]

(* slotTime of the scan: the day dayOffset days after today, at hour
   bestHours[j] *)
slotTime(optimal, t, dayOffset, j) == ((t \div 24) + dayOffset) * 24 + optimal.bestHours[j]

scanHitsNotStrict(optimal, t, lastOffset) ==
  {c \in (0..lastOffset) \X (1..Len(optimal.bestHours)) :
     /\ dayName((t \div 24) + c[1]) \in optimal.bestDays
     /\ slotTime(optimal, t, c[1], c[2]) >= t}

scanHitsToday(optimal, t, lastOffset) ==
  {c \in {0} \X (1..Len(optimal.bestHours)) :
     /\ dayName((t \div 24) + c[1]) \in optimal.bestDays
     /\ slotTime(optimal, t, c[1], c[2]) > t}

(* The pairs (dayOffset, index of the hour) at which the scan "for dayOffset
   0..lastOffset, for hour of bestHours" would return: the day is a best day
   and slotTime > now *)
scanHits(optimal, t, lastOffset) ==
  {c \in (0..lastOffset) \X (1..Len(optimal.bestHours)) :
     /\ dayName((t \div 24) + c[1]) \in optimal.bestDays
     /\ slotTime(optimal, t, c[1], c[2]) > t}

(* The first hit in the order of the two loops; tomorrow at the first hour
   when there is none *)
firstHit(optimal, t, lastOffset) ==
  LET found == scanHits(optimal, t, lastOffset)
  IN  IF found = {}
        THEN ((t \div 24) + 1) * 24 + optimal.bestHours[1]
        ELSE LET c == CHOOSE c \in found :
                        \A d \in found : c[1] < d[1] \/ (c[1] = d[1] /\ c[2] <= d[2])
             IN  slotTime(optimal, t, c[1], c[2])

getNextOptimalSlotShortScan(platform, t) == firstHit(getOptimalPostingTimes(platform), t, 5)

(* for (let dayOffset = 0; dayOffset < 7; dayOffset++) ... *)
getNextOptimalSlot(platform, t) == firstHit(getOptimalPostingTimes(platform), t, 6)

(* platforms.map(platform => ({platform, time: getNextOptimalSlot(platform)})) *)
slots(platforms, t) ==
  [j \in 1..Len(platforms) |->
     [platform |-> platforms[j], time |-> getNextOptimalSlot(platforms[j], t)]]

(* slots.reduce((earliest, current) => current.time < earliest.time ? current : earliest)
   from element j on, on a non-empty array: the first element starts as earliest *)
RECURSIVE reduceEarliest(_, _, _)
reduceEarliest(s, j, earliest) ==
  IF j > Len(s) THEN earliest
  ELSE reduceEarliest(s, j + 1, IF s[j].time < earliest.time THEN s[j] ELSE earliest)

lastSlot(platforms, t) == slots(platforms, t)[Len(platforms)].time

earliestSlot(platforms, t) ==
  LET s == slots(platforms, t) IN reduceEarliest(s, 2, s[1]).time

(* Nothing returned by scheduleForOptimalTime yet *)
NoPlan == [scheduledAt |-> NULL, recommendations |-> <<>>]

---------------------------------------------------------------------------
(* publishPost: publisher.js lines 172-251 *)

(* The rows of social_accounts, in rowid order, that publishPost's SELECT
   matches for platform q: platform = ? AND is_active = 1 *)
ActiveRows(q) ==
  {i \in 1..Len(social_accounts) :
     social_accounts[i].platform = q /\ social_accounts[i].is_active}

(* SELECT * FROM social_accounts WHERE user_id = ? AND platform = ? AND
   is_active = 1 LIMIT 1, by platform: the access_token of the matching row
   of lowest rowid (sql.js walks the table in rowid order), None when no row
   matches *)
accounts ==
  [q \in AllPlatforms |->
     IF ActiveRows(q) = {} THEN None
     ELSE social_accounts[CHOOSE i \in ActiveRows(q) : \A j \in ActiveRows(q) : i <= j].access_token]

RealCallIgnoringEnv(q) == accounts[q] = "real"

(* process.env.<KEY> && account.access_token !== 'demo-token' *)
RealCall(q) == q \in envKeys /\ accounts[q] = "real"

(* results[platform] = ... *)
Record(results, q, success) ==
  [r \in DOMAIN results \cup {q} |-> IF r = q THEN success ELSE results[r]]

RowLeftPending(p, q, message) == pp

RowPublishedAll(p, q) ==
  [pp EXCEPT ![p] = [r \in DOMAIN pp[p] |-> [pp[p][r] EXCEPT !.status = "published", !.extId = TRUE]]]

(* UPDATE platform_posts SET status = 'failed', error_message = ? WHERE post_id = ? AND platform = ? *)
RowFailed(p, q, message) ==
  IF q \in DOMAIN pp[p]
    THEN [pp EXCEPT ![p] = [pp[p] EXCEPT ![q] = [pp[p][q] EXCEPT !.status = "failed", !.err = message]]]
    ELSE pp

(* UPDATE platform_posts SET status = 'published', platform_post_id = ? ... *)
RowPublished(p, q) ==
  IF q \in DOMAIN pp[p]
    THEN [pp EXCEPT ![p] = [pp[p] EXCEPT ![q] = [pp[p][q] EXCEPT !.status = "published", !.extId = TRUE]]]
    ELSE pp

(* One pass of the for loop over the platforms, up to the point where the
   handler either has an outcome for platform k or is suspended in axios.post. *)
PublishStep(x) ==
  /\ running = x
  /\ h[x].pc = "publish"
  /\ LET c == h[x]
         items == c.post.platforms.items
     IN  IF c.k > Len(items)
           THEN /\ h' = [h EXCEPT ![x].pc = "returned"]
                /\ UNCHANGED <<pp, running>>
           ELSE LET q == items[c.k]
                    fail == [h EXCEPT ![x].results = Record(c.results, q, FALSE), ![x].k = c.k + 1]
                IN  IF accounts[q] = None
                      THEN h' = fail /\ pp' = RowFailed(c.post.id, q, "No connected account") /\ UNCHANGED running
                    ELSE IF q \notin platformClients
                      THEN h' = fail /\ UNCHANGED <<pp, running>>
                    ELSE IF q = "instagram" /\ ~c.post.media
                      THEN /\ h' = fail
                           /\ pp' = RowFailed(c.post.id, q, "Instagram requires at least one image")
                           /\ UNCHANGED running
                    ELSE IF RealCall(q)
                      THEN /\ h' = [h EXCEPT ![x].pc = "await"]
                           /\ running' = None
                           /\ UNCHANGED pp
                    ELSE /\ h' = [h EXCEPT ![x].results = Record(c.results, q, TRUE), ![x].k = c.k + 1]
                         /\ pp' = RowPublished(c.post.id, q)
                         /\ UNCHANGED running
  /\ UNCHANGED <<posts, social_accounts, envKeys, optimalTimes, planned, now>>

AdapterRespondsAborting(x, ok) ==
  /\ running = None
  /\ h[x].pc = "await"
  /\ LET c == h[x]
         q == c.post.platforms.items[c.k]
     IN  IF ok
           THEN /\ h' = [h EXCEPT ![x].pc = "publish", ![x].results = Record(c.results, q, TRUE), ![x].k = c.k + 1]
                /\ pp' = RowPublished(c.post.id, q)
           ELSE /\ h' = [h EXCEPT ![x].pc = "returned"]
                /\ pp' = pp
  /\ running' = x
  /\ UNCHANGED <<posts, social_accounts, envKeys, optimalTimes, planned, now>>

(* The network call of the adapter settles: the response makes the outcome
   {success: true, postId}, an error is rethrown by the adapter and caught by
   publishPost's per-platform catch.  The handler resumes. *)
AdapterResponds(x, ok) ==
  /\ running = None
  /\ h[x].pc = "await"
  /\ LET c == h[x]
         q == c.post.platforms.items[c.k]
     IN  /\ h' = [h EXCEPT ![x].pc = "publish", ![x].results = Record(c.results, q, ok), ![x].k = c.k + 1]
         /\ pp' = IF ok THEN RowPublished(c.post.id, q) ELSE RowFailed(c.post.id, q, "error.message")
  /\ running' = x
  /\ UNCHANGED <<posts, social_accounts, envKeys, optimalTimes, planned, now>>

---------------------------------------------------------------------------
(* The scheduling loop: scheduler.js lines 5-77, fired by cron.schedule in
   server.js lines 56-63.  The timer starts a tick whenever it fires, whether
   or not an earlier tick is still suspended. *)

(* now, the SELECT, and the early return on an empty selection *)
TickStart(t) ==
  /\ running = None
  /\ h[t].pc = "idle"
  /\ \E s \in SelectDue(now) :
       IF Len(s) = 0
         THEN UNCHANGED <<h, running>>
         ELSE /\ h' = [h EXCEPT ![t] = [IdleHandler EXCEPT !.pc = "claim", !.sel = s, !.i = 1]]
              /\ running' = t
  /\ UNCHANGED <<posts, pp, social_accounts, envKeys, optimalTimes, planned, now>>

TickClaimNoWrite(t) ==
  /\ running = t
  /\ h[t].pc = "claim"
  /\ LET post == h[t].sel[h[t].i]
     IN  h' = [h EXCEPT ![t].pc = IF post.platforms.array THEN "publish" ELSE "catch",
                       ![t].post = post, ![t].k = 1, ![t].results = EmptyResults]
  /\ UNCHANGED <<posts, pp, social_accounts, envKeys, optimalTimes, planned, now, running>>

(* UPDATE posts SET status = 'processing' WHERE id = ?, then the call of
   publishPost up to its loop; JSON.parse gives a value for...of cannot
   iterate: the TypeError leaves publishPost and reaches the tick's catch. *)
TickClaim(t) ==
  /\ running = t
  /\ h[t].pc = "claim"
  /\ LET post == h[t].sel[h[t].i]
     IN  /\ posts' = [posts EXCEPT ![post.id].status = "processing"]
         /\ h' = [h EXCEPT ![t].pc = IF post.platforms.array THEN "publish" ELSE "catch",
                           ![t].post = post, ![t].k = 1, ![t].results = EmptyResults]
  /\ UNCHANGED <<pp, social_accounts, envKeys, optimalTimes, planned, now, running>>

NextPostSkipping(t) ==
  IF h[t].i + 1 < Len(h[t].sel)
    THEN /\ h' = [h EXCEPT ![t].pc = "claim", ![t].i = h[t].i + 2, ![t].n = h[t].n + 1]
         /\ UNCHANGED running
    ELSE /\ h' = [h EXCEPT ![t] = IdleHandler]
         /\ running' = None

(* results.push({postId, status, ...}) and the end of one iteration of the for
   loop over scheduledPosts; n is the length of the tick's results array.
   After the last iteration the tick returns {processed: results.length} to
   the timer callback, which drops it. *)
NextPost(t) ==
  IF h[t].i < Len(h[t].sel)
    THEN /\ h' = [h EXCEPT ![t].pc = "claim", ![t].i = h[t].i + 1, ![t].n = h[t].n + 1]
         /\ UNCHANGED running
    ELSE /\ h' = [h EXCEPT ![t] = IdleHandler]
         /\ running' = None

(* publishPost returned: aggregate and write the final status *)
TickFinalize(t) ==
  /\ t \in TickIds
  /\ running = t
  /\ h[t].pc = "returned"
  /\ LET finalStatus == FinalStatus(h[t].results)
     IN  posts' = [posts EXCEPT ![h[t].post.id].status = finalStatus,
                               ![h[t].post.id].published_at = PublishedAtFor(finalStatus, now)]
  /\ NextPost(t)
  /\ UNCHANGED <<pp, social_accounts, envKeys, optimalTimes, planned, now>>

TickCatchAborting(t) ==
  /\ running = t
  /\ h[t].pc = "catch"
  /\ posts' = [posts EXCEPT ![h[t].post.id].status = "failed"]
  /\ h' = [h EXCEPT ![t] = IdleHandler]
  /\ running' = None
  /\ UNCHANGED <<pp, social_accounts, envKeys, optimalTimes, planned, now>>

(* catch (error): UPDATE posts SET status = 'failed', updated_at = ... *)
TickCatch(t) ==
  /\ running = t
  /\ h[t].pc = "catch"
  /\ posts' = [posts EXCEPT ![h[t].post.id].status = "failed"]
  /\ NextPost(t)
  /\ UNCHANGED <<pp, social_accounts, envKeys, optimalTimes, planned, now>>

---------------------------------------------------------------------------
(* The tick when a write cannot be saved.  StatementWrapper.run (db.js lines
   59-68) changes the database in memory with db.run and then calls saveDb,
   whose fs.writeFileSync throws when the file cannot be written: the change
   is made and run throws. *)

(* The UPDATE to processing throws: the tick's catch takes over *)
TickClaimThrows(t) ==
  /\ running = t
  /\ h[t].pc = "claim"
  /\ LET post == h[t].sel[h[t].i]
     IN  /\ posts' = [posts EXCEPT ![post.id].status = "processing"]
         /\ h' = [h EXCEPT ![t].pc = "catch", ![t].post = post, ![t].k = 1,
                           ![t].results = EmptyResults]
  /\ UNCHANGED <<pp, social_accounts, envKeys, optimalTimes, planned, now, running>>

(* The UPDATE to the final status throws: the tick's catch takes over *)
TickFinalizeThrows(t) ==
  /\ running = t
  /\ h[t].pc = "returned"
  /\ LET finalStatus == FinalStatus(h[t].results)
     IN  posts' = [posts EXCEPT ![h[t].post.id].status = finalStatus,
                               ![h[t].post.id].published_at = PublishedAtFor(finalStatus, now)]
  /\ h' = [h EXCEPT ![t].pc = "catch"]
  /\ UNCHANGED <<pp, social_accounts, envKeys, optimalTimes, planned, now, running>>

TickCatchThrowsUncaught(t) ==
  /\ running = t
  /\ h[t].pc = "catch"
  /\ posts' = [posts EXCEPT ![h[t].post.id].status = "failed"]
  /\ h' = [x \in DOMAIN h |-> [IdleHandler EXCEPT !.pc = "exited"]]
  /\ running' = None
  /\ UNCHANGED <<pp, social_accounts, envKeys, optimalTimes, planned, now>>

(* The UPDATE of the tick's catch throws: processScheduledPosts rejects, and
   the catch of the timer callback (server.js lines 58-62) logs the error.
   The timer goes on. *)
TickCatchThrows(t) ==
  /\ running = t
  /\ h[t].pc = "catch"
  /\ posts' = [posts EXCEPT ![h[t].post.id].status = "failed"]
  /\ h' = [h EXCEPT ![t] = [IdleHandler EXCEPT !.caught = TRUE]]
  /\ running' = None
  /\ UNCHANGED <<pp, social_accounts, envKeys, optimalTimes, planned, now>>

---------------------------------------------------------------------------
(* Publish now: POST /api/posts/:id/publish *)

(* 400 for a published post; otherwise publishPost is called with the row just
   read.  An exception of publishPost ends the request with 500 and no write. *)
PublishNowStart(r, p) ==
  /\ running = None
  /\ h[r].pc = "idle"
  /\ IF posts[p].status = "published"
       THEN UNCHANGED <<h, running>>
       ELSE IF posts[p].platforms.array
              THEN /\ h' = [h EXCEPT ![r] = [IdleHandler EXCEPT !.pc = "publish", !.post = Snapshot(p), !.k = 1]]
                   /\ running' = r
              ELSE UNCHANGED <<h, running>>
  /\ UNCHANGED <<posts, pp, social_accounts, envKeys, optimalTimes, planned, now>>

(* UPDATE posts SET status = 'published', published_at = CURRENT_TIMESTAMP *)
PublishNowFinish(r) ==
  /\ r \in PubIds
  /\ running = r
  /\ h[r].pc = "returned"
  /\ posts' = [posts EXCEPT ![h[r].post.id].status = "published",
                            ![h[r].post.id].published_at = now]
  /\ h' = [h EXCEPT ![r] = IdleHandler]
  /\ running' = None
  /\ UNCHANGED <<pp, social_accounts, envKeys, optimalTimes, planned, now>>

---------------------------------------------------------------------------
(* Synchronous requests of the trigger surface.  Each runs to its response
   in one piece, and only while no handler holds the event loop. *)

(* Request bodies of PUT /api/posts/:id.  A field sent as null keeps the
   stored value (COALESCE), except scheduled_at, which is always written. *)
EditBodies ==
  [status : {None, "draft", "scheduled"},
   scheduled_at : {NULL} \cup (0..MaxTime),
   platforms : {{}, {Arr(<<>>)}, {Arr(<<"facebook">>)}, {NotIterable}}]

(* PUT /api/posts/:id *)
Edit(p, body) ==
  /\ running = None
  /\ IF posts[p].status = "published"
       THEN UNCHANGED posts
       ELSE LET status == IF body.status = None THEN posts[p].status ELSE body.status
                platforms == IF body.platforms = {} THEN posts[p].platforms
                             ELSE CHOOSE v \in body.platforms : TRUE
            IN  posts' = [posts EXCEPT ![p].status = status,
                                      ![p].scheduled_at = body.scheduled_at,
                                      ![p].platforms = platforms]
  /\ UNCHANGED <<pp, social_accounts, envKeys, optimalTimes, planned, now, h, running>>

(* POST /api/posts/:id/media with at least one file *)
UploadMedia(p) ==
  /\ running = None
  /\ posts' = [posts EXCEPT ![p].media = TRUE]
  /\ UNCHANGED <<pp, social_accounts, envKeys, optimalTimes, planned, now, h, running>>

(* Times a request carries: none, a string that is no date, or a time *)
TimeInputs == {NULL, NaT} \cup (0..MaxTime)

(* POST /api/schedule/:postId with scheduled_at = t (NULL: not given).
   new Date(scheduled_at) <= new Date() is false for an Invalid Date. *)
Schedule(p, t) ==
  /\ running = None
  /\ IF posts[p].status = "published" \/ t = NULL \/ (t # NaT /\ t <= now)
       THEN UNCHANGED posts
       ELSE posts' = [posts EXCEPT ![p].scheduled_at = t, ![p].status = "scheduled"]
  /\ UNCHANGED <<pp, social_accounts, envKeys, optimalTimes, planned, now, h, running>>

ScheduleOptimalDefaulting(p) ==
  /\ running = None
  /\ IF posts[p].status = "published" \/ ~posts[p].platforms.array
       THEN UNCHANGED <<posts, planned>>
       ELSE LET items == posts[p].platforms.items
                time == IF items = <<>> THEN now + 1 ELSE earliestSlot(items, now)
            IN  /\ posts' = [posts EXCEPT ![p].scheduled_at = time, ![p].status = "scheduled"]
                /\ planned' = [scheduledAt |-> time, recommendations |-> slots(items, now)]
  /\ UNCHANGED <<pp, social_accounts, envKeys, optimalTimes, now, h, running>>

(* POST /api/schedule/:postId with use_optimal_time: scheduleForOptimalTime.
   platforms.map throws on a value that is no array and reduce throws on an
   empty array; both end the request with 500 before the UPDATE. *)
ScheduleOptimal(p) ==
  /\ running = None
  /\ IF posts[p].status = "published" \/ ~posts[p].platforms.array \/ posts[p].platforms.items = <<>>
       THEN UNCHANGED <<posts, planned>>
       ELSE /\ posts' = [posts EXCEPT ![p].scheduled_at = earliestSlot(posts[p].platforms.items, now),
                                     ![p].status = "scheduled"]
            /\ planned' = [scheduledAt |-> earliestSlot(posts[p].platforms.items, now),
                           recommendations |-> slots(posts[p].platforms.items, now)]
  /\ UNCHANGED <<pp, social_accounts, envKeys, optimalTimes, now, h, running>>

(* PUT /api/schedule/:postId.  Without scheduled_at the comparison is false
   as well, and the UPDATE then throws on binding undefined: 500, no write;
   with scheduled_at: null the time is the epoch and the request is refused. *)
Reschedule(p, t) ==
  /\ running = None
  /\ IF posts[p].status \notin {"draft", "scheduled"} \/ t = NULL \/ (t # NaT /\ t <= now)
       THEN UNCHANGED posts
       ELSE posts' = [posts EXCEPT ![p].scheduled_at = t, ![p].status = "scheduled"]
  /\ UNCHANGED <<pp, social_accounts, envKeys, optimalTimes, planned, now, h, running>>

UnscheduleAnyStatus(p) ==
  /\ running = None
  /\ posts' = [posts EXCEPT ![p].scheduled_at = NULL, ![p].status = "draft"]
  /\ UNCHANGED <<pp, social_accounts, envKeys, optimalTimes, planned, now, h, running>>

(* DELETE /api/schedule/:postId *)
Unschedule(p) ==
  /\ running = None
  /\ IF posts[p].status # "scheduled"
       THEN UNCHANGED posts
       ELSE posts' = [posts EXCEPT ![p].scheduled_at = NULL, ![p].status = "draft"]
  /\ UNCHANGED <<pp, social_accounts, envKeys, optimalTimes, planned, now, h, running>>

(* The clock *)
Advance ==
  /\ running = None
  /\ now < MaxTime
  /\ now' = now + 1
  /\ UNCHANGED <<posts, pp, social_accounts, envKeys, optimalTimes, planned, h, running>>

---------------------------------------------------------------------------
(* The account routes of one user: routes/social.js lines 24-117.  A row of
   social_accounts is identified by its place in rowid order. *)

(* The row the connect route finds for (user, platform, account_id): .get
   returns the first one *)
existing(platform, account_id) ==
  {i \in 1..Len(social_accounts) :
     social_accounts[i].platform = platform /\ social_accounts[i].account_id = account_id}

(* POST /api/social/accounts/connect with account_id (account_name when it
   is absent) and access_token (the demo token when it is absent): the row
   found is updated and made active, otherwise a new active row is inserted *)
Connect(platform, account_id, token) ==
  /\ running = None
  /\ LET found == existing(platform, account_id)
     IN  IF found # {}
           THEN LET id == CHOOSE i \in found : \A j \in found : i <= j
                IN  social_accounts' =
                      [social_accounts EXCEPT ![id].access_token = token, ![id].is_active = TRUE]
           ELSE /\ Len(social_accounts) < MaxAccounts
                /\ social_accounts' =
                     Append(social_accounts,
                            [platform |-> platform, account_id |-> account_id,
                             access_token |-> token, is_active |-> TRUE])
  /\ UNCHANGED <<posts, pp, envKeys, optimalTimes, planned, now, h, running>>

(* DELETE /api/social/accounts/:id *)
Disconnect(id) ==
  /\ running = None
  /\ id \in 1..Len(social_accounts)
  /\ social_accounts' =
       [j \in 1..(Len(social_accounts) - 1) |->
          IF j < id THEN social_accounts[j] ELSE social_accounts[j + 1]]
  /\ UNCHANGED <<posts, pp, envKeys, optimalTimes, planned, now, h, running>>

(* PATCH /api/social/accounts/:id/toggle *)
Toggle(id) ==
  /\ running = None
  /\ id \in 1..Len(social_accounts)
  /\ social_accounts' =
       [social_accounts EXCEPT ![id].is_active = ~social_accounts[id].is_active]
  /\ UNCHANGED <<posts, pp, envKeys, optimalTimes, planned, now, h, running>>

---------------------------------------------------------------------------
(* Initial states and specifications *)

(* Accounts connected through POST /api/social/accounts/connect: twitter
   with a real token, the others with the demo token, none for linkedin. *)
ConnectedAccounts ==
  [q \in AllPlatforms |->
     IF q = "twitter" THEN "real" ELSE IF q = "linkedin" THEN None ELSE "demo"]

(* The table after those requests: one active row for each connected
   platform *)
PlatformOrder == <<"facebook", "linkedin", "twitter", "instagram", "tiktok">>

AccountRows(f) ==
  SelectSeq([j \in 1..Len(PlatformOrder) |->
               [platform |-> PlatformOrder[j], account_id |-> "a1",
                access_token |-> f[PlatformOrder[j]], is_active |-> TRUE]],
            LAMBDA r : r.access_token # None)

CreateLists == {Arr(<<"twitter">>), Arr(<<"twitter", "instagram">>), NotIterable}

(* Posts as POST /api/posts leaves them *)
CreatedPosts ==
  {CreatePost("draft", NULL, l) : l \in CreateLists}
    \cup {CreatePost("scheduled", t, l) : t \in 0..MaxTime, l \in CreateLists}

InitWith(ps, handlers, t) ==
  /\ posts = ps
  /\ pp = [p \in DOMAIN ps |-> CreateRows(ps[p].platforms)]
  /\ social_accounts = AccountRows(ConnectedAccounts)
  /\ envKeys = {"twitter"}
  /\ optimalTimes = IndustryStandardTimes
  /\ planned = NoPlan
  /\ now = t
  /\ h = [x \in handlers |-> IdleHandler]
  /\ running = None

Init == \E ps \in [1..MaxPosts -> CreatedPosts] : InitWith(ps, {"t1", "r1"}, 0)

Next ==
  \/ \E t \in TickIds \cap DOMAIN h : TickStart(t)
  \/ \E t \in TickIds \cap DOMAIN h : TickClaim(t)
  \/ \E t \in TickIds \cap DOMAIN h : TickFinalize(t)
  \/ \E t \in TickIds \cap DOMAIN h : TickCatch(t)
  \/ \E x \in DOMAIN h : PublishStep(x)
  \/ \E x \in DOMAIN h, ok \in BOOLEAN : AdapterResponds(x, ok)
  \/ \E r \in PubIds \cap DOMAIN h, p \in DOMAIN posts : PublishNowStart(r, p)
  \/ \E r \in PubIds \cap DOMAIN h : PublishNowFinish(r)
  \/ \E p \in DOMAIN posts, body \in EditBodies : Edit(p, body)
  \/ \E p \in DOMAIN posts : UploadMedia(p)
  \/ \E p \in DOMAIN posts, t \in TimeInputs : Schedule(p, t)
  \/ \E p \in DOMAIN posts : ScheduleOptimal(p)
  \/ \E p \in DOMAIN posts, t \in TimeInputs : Reschedule(p, t)
  \/ \E p \in DOMAIN posts : Unschedule(p)
  \/ Advance

Spec == Init /\ [][Next]_vars

(* The timer alone over two posts: a tick that is suspended in an adapter
   call when the timer fires again, and no request. *)
InitOverlap == \E ps \in [1..OverlapPosts -> CreatedPosts] : InitWith(ps, TickIds, 0)

NextOverlap ==
  \/ \E t \in TickIds \cap DOMAIN h : TickStart(t)
  \/ \E t \in TickIds \cap DOMAIN h : TickClaim(t)
  \/ \E t \in TickIds \cap DOMAIN h : TickFinalize(t)
  \/ \E t \in TickIds \cap DOMAIN h : TickCatch(t)
  \/ \E x \in DOMAIN h : PublishStep(x)
  \/ \E x \in DOMAIN h, ok \in BOOLEAN : AdapterResponds(x, ok)
  \/ Advance

SpecOverlap == InitOverlap /\ [][NextOverlap]_vars

(* One timer, no request: a backlog of BatchPosts due posts, created through
   POST /api/posts with status scheduled, next to a draft that carries a
   time, a post scheduled for later and a scheduled post without a time. *)
BatchLists ==
  <<Arr(<<"twitter", "instagram">>), NotIterable, Arr(<<"twitter">>), Arr(<<"tiktok">>)>>

BatchPost(p, ascending) ==
  IF p <= BatchPosts
    THEN CreatePost("scheduled", IF ascending THEN p - 1 ELSE BatchPosts - p,
                    BatchLists[((p - 1) % Len(BatchLists)) + 1])
  ELSE IF p = BatchPosts + 1 THEN CreatePost("draft", 0, Arr(<<"twitter">>))
  ELSE IF p = BatchPosts + 2 THEN CreatePost("scheduled", BatchPosts + 1, Arr(<<"twitter">>))
  ELSE CreatePost("scheduled", NULL, Arr(<<"twitter">>))

InitTick ==
  \E ascending \in BOOLEAN :
    InitWith([p \in 1..(BatchPosts + 3) |-> BatchPost(p, ascending)], {"t1"}, BatchPosts)

NextTick ==
  \/ \E t \in TickIds \cap DOMAIN h : TickStart(t)
  \/ \E t \in TickIds \cap DOMAIN h : TickClaim(t)
  \/ \E t \in TickIds \cap DOMAIN h : TickFinalize(t)
  \/ \E t \in TickIds \cap DOMAIN h : TickCatch(t)
  \/ \E x \in DOMAIN h : PublishStep(x)
  \/ \E x \in DOMAIN h, ok \in BOOLEAN : AdapterResponds(x, ok)

SpecTick == InitTick /\ [][NextTick]_vars

(* publishPost on its own, called by the publish-now route: two drafts
   created through POST /api/posts, and the accounts and API keys of one
   deployment.  twitter has an account with a real token and its key; the
   facebook account is real, demo or missing; linkedin is real or missing;
   instagram is demo; tiktok, for which no client exists, has an account or
   none. *)
PublishLists ==
  {Arr(<<"twitter", "facebook">>), Arr(<<"linkedin", "twitter", "instagram">>),
   Arr(<<"tiktok", "facebook">>)}

AccountConfigs ==
  {a \in [AllPlatforms -> {None, "demo", "real"}] :
     /\ a["twitter"] = "real"
     /\ a["linkedin"] # "demo"
     /\ a["instagram"] = "demo"
     /\ a["tiktok"] # "real"}

InitPublish ==
  \E ps \in [1..PublishPosts -> {CreatePost("draft", NULL, l) : l \in PublishLists}],
     a \in AccountConfigs,
     keys \in {{"twitter"}, {"twitter", "facebook", "linkedin"}} :
    /\ posts = ps
    /\ pp = [p \in DOMAIN ps |-> CreateRows(ps[p].platforms)]
    /\ social_accounts = AccountRows(a)
    /\ envKeys = keys
    /\ optimalTimes = IndustryStandardTimes
    /\ planned = NoPlan
    /\ now = 0
    /\ h = [x \in PubIds |-> IdleHandler]
    /\ running = None

NextPublish ==
  \/ \E r \in PubIds \cap DOMAIN h, p \in DOMAIN posts : PublishNowStart(r, p)
  \/ \E r \in PubIds \cap DOMAIN h : PublishNowFinish(r)
  \/ \E x \in DOMAIN h : PublishStep(x)
  \/ \E x \in DOMAIN h, ok \in BOOLEAN : AdapterResponds(x, ok)
  \/ \E p \in DOMAIN posts : UploadMedia(p)

SpecPublish == InitPublish /\ [][NextPublish]_vars

(* The batch of SpecTick with the scheduling of the event loop: a handler
   that holds the loop takes its next step, and a timer that keeps firing
   starts a tick.  The network owes no answer: nothing in the code makes a
   pending axios.post settle, so no fairness is put on AdapterResponds. *)
HandlerStep ==
  \/ \E t \in TickIds \cap DOMAIN h : TickStart(t)
  \/ \E t \in TickIds \cap DOMAIN h : TickClaim(t)
  \/ \E t \in TickIds \cap DOMAIN h : TickFinalize(t)
  \/ \E t \in TickIds \cap DOMAIN h : TickCatch(t)
  \/ \E x \in DOMAIN h : PublishStep(x)

SpecTickLive == InitTick /\ [][NextTick]_vars /\ WF_vars(HandlerStep)

(* The same batch with adapters whose calls settle *)
AdapterStep == \E x \in DOMAIN h, ok \in BOOLEAN : AdapterResponds(x, ok)

SpecTickFair ==
  InitTick /\ [][NextTick]_vars /\ WF_vars(HandlerStep) /\ WF_vars(AdapterStep)

(* The schedule routes next to the timer: a post created as scheduled, the
   clock, one timer, and the requests to schedule, reschedule and unschedule. *)
InitSchedule ==
  \E ps \in [1..MaxPosts -> {CreatePost("scheduled", t, l) : t \in 0..MaxTime, l \in CreateLists}] :
    InitWith(ps, {"t1"}, 0)

NextSchedule ==
  \/ \E t \in TickIds \cap DOMAIN h : TickStart(t)
  \/ \E t \in TickIds \cap DOMAIN h : TickClaim(t)
  \/ \E t \in TickIds \cap DOMAIN h : TickFinalize(t)
  \/ \E t \in TickIds \cap DOMAIN h : TickCatch(t)
  \/ \E x \in DOMAIN h : PublishStep(x)
  \/ \E x \in DOMAIN h, ok \in BOOLEAN : AdapterResponds(x, ok)
  \/ \E p \in DOMAIN posts, t \in TimeInputs : Schedule(p, t)
  \/ \E p \in DOMAIN posts : ScheduleOptimal(p)
  \/ \E p \in DOMAIN posts, t \in TimeInputs : Reschedule(p, t)
  \/ \E p \in DOMAIN posts : Unschedule(p)
  \/ Advance

SpecSchedule == InitSchedule /\ [][NextSchedule]_vars

(* The optimal-time planner on its own: one draft, the clock at any hour of
   a week (hour 0 is Monday 00:00), and the request to schedule the draft for
   its optimal time. *)
PlannerLists ==
  {Arr(<<q>>) : q \in AllPlatforms}
    \cup {Arr(<<"facebook", "instagram">>), Arr(<<"twitter", "linkedin">>),
          Arr(<<"instagram", "linkedin", "facebook">>)}

(* The tables with, for facebook, a table of one best day and one best hour *)
TuesdayNineTimes ==
  [IndustryStandardTimes EXCEPT !["facebook"] = [bestDays |-> {"Tuesday"}, bestHours |-> <<9>>]]

InitPlannerWith(tables) ==
  \E l \in PlannerLists, t \in 0..(PlannerHours - 1), T \in tables :
    /\ posts = <<CreatePost("draft", NULL, l)>>
    /\ pp = <<CreateRows(l)>>
    /\ social_accounts = AccountRows(ConnectedAccounts)
    /\ envKeys = {"twitter"}
    /\ optimalTimes = T
    /\ planned = NoPlan
    /\ now = t
    /\ h = [x \in {} |-> IdleHandler]
    /\ running = None

NextPlanner == \E p \in DOMAIN posts : ScheduleOptimal(p)

(* The tables of the program *)
SpecPlanner == InitPlannerWith({IndustryStandardTimes}) /\ [][NextPlanner]_vars

(* The planner next to the edit route, through which the platforms of a
   post become an empty list or a value that is no list *)
NextPlannerEdit ==
  \/ \E p \in DOMAIN posts : ScheduleOptimal(p)
  \/ \E p \in DOMAIN posts, body \in EditBodies : Edit(p, body)

SpecPlannerEdit == InitPlannerWith({IndustryStandardTimes}) /\ [][NextPlannerEdit]_vars

(* The tables of the program, and the one-day table *)
SpecPlannerTables ==
  InitPlannerWith({IndustryStandardTimes, TuesdayNineTimes}) /\ [][NextPlanner]_vars

(* The timers alone at one instant: two posts, the clock at any hour and
   standing still, so that every due post is within one selection. *)
InitDispatch ==
  \E ps \in [1..OverlapPosts -> CreatedPosts], t \in 0..MaxTime : InitWith(ps, TickIds, t)

SpecDispatch == InitDispatch /\ [][NextTick]_vars

(* The timers at one instant over two posts, with writes that cannot be
   saved.  The timer fires every minute whatever became of earlier ticks, a
   handler that holds the loop takes its next step, and here the adapters
   answer: the two handlers stand for the ticks of all later minutes, which
   the timer starts whether or not an earlier one is still suspended. *)
NextThrows ==
  \/ \E t \in TickIds \cap DOMAIN h : TickStart(t)
  \/ \E t \in TickIds \cap DOMAIN h : TickClaim(t)
  \/ \E t \in TickIds \cap DOMAIN h : TickClaimThrows(t)
  \/ \E t \in TickIds \cap DOMAIN h : TickFinalize(t)
  \/ \E t \in TickIds \cap DOMAIN h : TickFinalizeThrows(t)
  \/ \E t \in TickIds \cap DOMAIN h : TickCatch(t)
  \/ \E t \in TickIds \cap DOMAIN h : TickCatchThrows(t)
  \/ \E x \in DOMAIN h : PublishStep(x)
  \/ \E x \in DOMAIN h, ok \in BOOLEAN : AdapterResponds(x, ok)

SpecThrows ==
  InitDispatch /\ [][NextThrows]_vars /\ WF_vars(NextThrows)

(* The process stops and is started again: every handler under way is gone
   with the process, and initDb (db.js lines 12-28) loads the database file,
   which saveDb wrote after every statement.  Nothing at start-up looks at
   the posts. *)
Crash ==
  /\ \E x \in DOMAIN h : h[x].pc # "idle"
  /\ h' = [x \in DOMAIN h |-> IdleHandler]
  /\ running' = None
  /\ UNCHANGED <<posts, pp, social_accounts, envKeys, optimalTimes, planned, now>>

(* The timers over two posts with a process that may stop at any point and
   start again, and the clock *)
NextCrash ==
  \/ \E t \in TickIds \cap DOMAIN h : TickStart(t)
  \/ \E t \in TickIds \cap DOMAIN h : TickClaim(t)
  \/ \E t \in TickIds \cap DOMAIN h : TickFinalize(t)
  \/ \E t \in TickIds \cap DOMAIN h : TickCatch(t)
  \/ \E x \in DOMAIN h : PublishStep(x)
  \/ \E x \in DOMAIN h, ok \in BOOLEAN : AdapterResponds(x, ok)
  \/ Advance
  \/ Crash

SpecCrash == InitOverlap /\ [][NextCrash]_vars

(* The account routes on their own: a user without accounts, and the
   connect, disconnect and toggle requests the user can send. *)
ConnectPlatforms == {"twitter", "facebook"}

AccountIds == {"a1", "a2"}

Tokens == {"demo", "real"}

InitAccounts ==
  /\ posts = <<>>
  /\ pp = <<>>
  /\ social_accounts = <<>>
  /\ envKeys = {"twitter"}
  /\ optimalTimes = IndustryStandardTimes
  /\ planned = NoPlan
  /\ now = 0
  /\ h = [x \in {} |-> IdleHandler]
  /\ running = None

NextAccounts ==
  \/ \E q \in ConnectPlatforms, a \in AccountIds, k \in Tokens : Connect(q, a, k)
  \/ \E id \in 1..MaxAccounts : Disconnect(id)
  \/ \E id \in 1..MaxAccounts : Toggle(id)

SpecAccounts == InitAccounts /\ [][NextAccounts]_vars

---------------------------------------------------------------------------
(* Properties *)

SelIds(t) == {h[t].sel[j].id : j \in 1..Len(h[t].sel)}

Ticks == TickIds \cap DOMAIN h

InFlight(t) == h[t].pc # "idle"

(* The step on which tick t returns *)
TickCompletes(t) == InFlight(t) /\ h'[t].pc = "idle"

(* The step on which tick t writes a post's final status *)
TickWritesFinal(t) == h[t].pc \in {"returned", "catch"} /\ h'[t].pc \notin {"returned", "catch"}

IsDue(p) == posts[p].scheduled_at # NULL /\ posts[p].scheduled_at <= now

(* C1, as claimed: when a tick returns, every post that was scheduled and due
   when it started is published, partial or failed.  With the timer alone, a
   due post was scheduled at the start exactly if the tick selected it or it
   is still scheduled. *)
C1_AllDuePostsFinal ==
  [][\A t \in Ticks : TickCompletes(t) =>
       \A p \in DOMAIN posts :
         (IsDue(p) /\ (p \in SelIds(t) \/ posts[p].status = "scheduled"))
           => posts'[p].status \in Final]_vars

(* C1, as amended: when a tick returns, every post of its selection, which
   holds at most Limit posts, is published, partial or failed, and no post is
   left in processing. *)
C1_SelectedPostsFinal ==
  [][\A t \in Ticks : TickCompletes(t) =>
       /\ Cardinality(SelIds(t)) <= Limit
       /\ \A p \in SelIds(t) : posts'[p].status \in Final
       /\ \A p \in DOMAIN posts : posts'[p].status # "processing"]_vars

(* A tick has returned after dispatching Limit posts of a longer backlog *)
C1_Witness ==
  /\ \A t \in Ticks : ~InFlight(t)
  /\ Cardinality({p \in DOMAIN posts : posts[p].status \in Final}) = Limit
  /\ DuePosts(now) # {}

(* What the selection of a tick holds right after the SELECT: posts that are
   scheduled and due, at most Limit of them, in ascending order of scheduled_at *)
C4_SelectionInv ==
  \A t \in Ticks : (h[t].pc = "claim" /\ h[t].i = 1) =>
    LET s == h[t].sel
    IN  /\ Len(s) <= Limit
        /\ \A j \in 1..Len(s) :
              /\ posts[s[j].id].status = "scheduled"
              /\ posts[s[j].id].scheduled_at # NULL
              /\ posts[s[j].id].scheduled_at <= now
        /\ \A j, k \in 1..Len(s) :
              j < k => posts[s[j].id].scheduled_at <= posts[s[k].id].scheduled_at

(* C4: the due-post selection returns only posts that are scheduled and due,
   at most 10 of them, sorted ascending by scheduled_at, and the step that
   selects changes no table. *)
C4_Selection ==
  /\ []C4_SelectionInv
  /\ [][\A t \in Ticks : (h[t].pc = "idle" /\ h'[t].pc = "claim") =>
          (posts' = posts /\ pp' = pp /\ social_accounts' = social_accounts)]_vars

(* A selection of Limit posts out of more due posts *)
C4_Witness ==
  \E t \in Ticks :
    /\ h[t].pc = "claim" /\ h[t].i = 1
    /\ Len(h[t].sel) = Limit
    /\ Cardinality(DuePosts(now)) > Limit

(* C5: for a non-empty outcome map the tick writes published when every
   outcome succeeded, partial when some succeeded and some failed, failed
   when none succeeded. *)
C5_Aggregation ==
  [][\A t \in Ticks :
       (h[t].pc = "returned" /\ h'[t].pc # "returned" /\ DOMAIN h[t].results # {}) =>
         LET r == h[t].results
             ok == {q \in DOMAIN r : r[q]}
             status == posts'[h[t].post.id].status
         IN  /\ ok = DOMAIN r => status = "published"
             /\ (ok # {} /\ ok # DOMAIN r) => status = "partial"
             /\ ok = {} => status = "failed"]_vars

(* The tick has written each of the three outcomes from outcome maps *)
C5_Witness ==
  /\ \E p \in DOMAIN posts : posts[p].status = "published"
  /\ \E p \in DOMAIN posts : posts[p].status = "partial"
  /\ \E p \in DOMAIN posts : posts[p].status = "failed" /\ posts[p].platforms.array

(* Handler x is inside publishPost *)
InPublishPost(x) == h[x].pc \in {"publish", "await", "returned"}

(* C2: no post is dispatched twice; two calls of publishPost for the same
   post are never under way at once. *)
C2_NoDoubleDispatch ==
  \A x, y \in DOMAIN h :
    (x # y /\ InPublishPost(x) /\ InPublishPost(y)) => h[x].post.id # h[y].post.id

(* C3: at most one tick is in flight at any time. *)
C3_OneTickInFlight == Cardinality({t \in Ticks : InFlight(t)}) <= 1

(* C6: for a post with an empty platform set, whose outcome map is empty,
   the tick writes failed. *)
C6_EmptyIsFailed ==
  [][\A t \in Ticks :
       (h[t].pc = "returned" /\ h'[t].pc # "returned" /\ DOMAIN h[t].results = {}) =>
         posts'[h[t].post.id].status = "failed"]_vars

(* C7: publish now writes the status the aggregation rule gives for its
   outcomes: published only if all succeeded, partial if some succeeded and
   some failed, failed if none succeeded. *)
C7_PublishNowAggregates ==
  [][\A r \in PubIds \cap DOMAIN h :
       (h[r].pc = "returned" /\ h'[r].pc # "returned" /\ DOMAIN h[r].results # {}) =>
         LET res == h[r].results
             ok == {q \in DOMAIN res : res[q]}
             status == posts'[h[r].post.id].status
         IN  /\ status = "published" => ok = DOMAIN res
             /\ (ok # {} /\ ok # DOMAIN res) => status = "partial"
             /\ ok = {} => status = "failed"]_vars

(* C8: after the tick's final write, by aggregation or by the catch,
   published_at is the current time if the status written is published or
   partial, and is unset if it is failed. *)
C8_PublishedAtStamp ==
  [][\A t \in Ticks : TickWritesFinal(t) =>
       LET after == posts'[h[t].post.id]
       IN  /\ after.status \in {"published", "partial"} => after.published_at = now
           /\ after.status = "failed" => after.published_at = NULL]_vars

(* C9: no step of a tick changes the status of a post that is published,
   partial or failed. *)
C9_TerminalForTicks ==
  [][(running \in TickIds) =>
       \A p \in DOMAIN posts :
         posts[p].status \in Final => (posts'[p].status = posts[p].status)]_vars

(* C10: no request (edit, schedule, reschedule, unschedule, media upload,
   publish now) changes a post that is published or partial. *)
C10_PublishedIsFrozen ==
  [][((h' = h /\ now' = now) \/ running \in PubIds) =>
       \A p \in DOMAIN posts :
         posts[p].status \in {"published", "partial"} => (posts'[p] = posts[p])]_vars

(* Tick t calls publishPost on this step (the call goes on into the loop over
   the platforms, or throws into the catch of the tick) *)
TickEntersPublishPost(t) ==
  h[t].pc \notin {"publish", "await", "returned", "catch"} /\ h'[t].pc \in {"publish", "catch"}

(* C11: a tick enters publishPost for a post only on the step that writes
   status = processing to that post, with no adapter called yet; and a
   selection never returns a post whose status is processing. *)
C11_ClaimBeforeDispatch ==
  [][\A t \in Ticks :
       /\ TickEntersPublishPost(t) =>
            /\ h[t].pc = "claim"
            /\ posts'[h'[t].post.id].status = "processing"
            /\ h'[t].k = 1 /\ DOMAIN h'[t].results = {}
       /\ (h[t].pc = "idle" /\ h'[t].pc = "claim") =>
            \A p \in DOMAIN posts :
              posts[p].status = "processing" => p \notin {h'[t].sel[j].id : j \in 1..Len(h'[t].sel)}]_vars

(* A tick is suspended in the adapter call of a post it has claimed, and a
   later tick has just selected without getting that due post *)
C11_Witness ==
  \E t, u \in Ticks :
    /\ t # u
    /\ h[t].pc = "await"
    /\ posts[h[t].post.id].status = "processing"
    /\ IsDue(h[t].post.id)
    /\ h[u].pc = "claim" /\ h[u].i = 1
    /\ h[t].post.id \notin SelIds(u)

(* The platform handler x is handling in publishPost *)
CurrentPlatform(x) == h[x].post.platforms.items[h[x].k]

(* Handler x is in the loop of publishPost with a platform left to handle *)
HandlingPlatform(x) ==
  h[x].pc \in {"publish", "await"} /\ h[x].k <= Len(h[x].post.platforms.items)

(* C12: an error raised by an adapter becomes the outcome success = false of
   that platform and the loop goes on with the next platform; when publishPost
   returns, the map has an entry for every target platform and no other. *)
C12_ErrorsBecomeOutcomes ==
  [][\A x \in DOMAIN h :
       /\ (h[x].pc = "await" /\ h'[x].pc # "await") =>
            /\ h'[x].pc = "publish"
            /\ h'[x].k = h[x].k + 1
            /\ DOMAIN h'[x].results = DOMAIN h[x].results \cup {CurrentPlatform(x)}
            /\ \A q \in DOMAIN h[x].results \ {CurrentPlatform(x)} :
                 h'[x].results[q] = h[x].results[q]
       /\ (h[x].pc = "publish" /\ h'[x].pc = "returned") =>
            DOMAIN h[x].results = Range(h[x].post.platforms.items)]_vars

(* publishPost has returned a map in which an adapter that raised has a
   failed outcome and a platform handled after it has succeeded *)
C12_Witness ==
  \E x \in DOMAIN h :
    /\ h[x].pc = "returned"
    /\ \E j, l \in 1..Len(h[x].post.platforms.items) :
         LET q == h[x].post.platforms.items[j]
             r == h[x].post.platforms.items[l]
         IN  j < l /\ RealCall(q) /\ ~h[x].results[q] /\ h[x].results[r]

(* C13: for a platform without an active account publishPost records the
   outcome success = false, sets the platform's row to failed with an error
   message and goes on to the next platform. *)
C13_NoAccountIsFailure ==
  [][\A x \in DOMAIN h :
       (running = x /\ HandlingPlatform(x) /\ accounts[CurrentPlatform(x)] = None) =>
         LET q == CurrentPlatform(x)
             id == h[x].post.id
         IN  /\ h'[x].pc = "publish"
             /\ h'[x].k = h[x].k + 1
             /\ q \in DOMAIN h'[x].results /\ ~h'[x].results[q]
             /\ pp'[id][q].status = "failed" /\ pp'[id][q].err # ""
             /\ \A r \in DOMAIN pp[id] \ {q} : pp'[id][r] = pp[id][r]]_vars

(* publishPost has passed a platform without account and is at the next one *)
C13_Witness ==
  \E x \in DOMAIN h :
    /\ HandlingPlatform(x) /\ h[x].k > 1
    /\ LET q == h[x].post.platforms.items[h[x].k - 1]
       IN  /\ accounts[q] = None
           /\ ~h[x].results[q]
           /\ pp[h[x].post.id][q].status = "failed"

(* C14: when the processing of a selected post raises, the tick sets that
   post to failed and goes on with the post selected after it; the step on
   which the tick returns pushes the last entry of its results, which then
   has one entry per selected post. *)
C14_FailureBoundary ==
  [][\A t \in Ticks :
       /\ (h[t].pc = "catch" /\ h'[t].pc # "catch") =>
            /\ posts'[h[t].post.id].status = "failed"
            /\ h[t].i < Len(h[t].sel) =>
                 (h'[t].pc = "claim" /\ h'[t].i = h[t].i + 1 /\ h'[t].sel = h[t].sel)
       /\ TickWritesFinal(t) => (h[t].n = h[t].i - 1 /\ h[t].post = h[t].sel[h[t].i])
       /\ TickCompletes(t) => h[t].n + 1 = Len(h[t].sel)]_vars

(* The tick has returned; a post whose processing raised is failed and a
   post selected after it was dispatched and is published *)
C14_Witness ==
  /\ \A t \in Ticks : h[t].pc = "idle"
  /\ \E p, q \in DOMAIN posts :
       /\ ~posts[p].platforms.array /\ posts[p].status = "failed"
       /\ posts[q].scheduled_at > posts[p].scheduled_at
       /\ posts[q].status = "published" /\ posts[q].published_at = now

(* C15: an adapter call does not stay pending for ever: a tick suspended in
   an adapter call gets an outcome for that platform, and the tick returns. *)
C15_AdapterCallEnds ==
  (\E t \in TickIds \cap DOMAIN h : h[t].pc = "await") ~> (\A t \in TickIds \cap DOMAIN h : h[t].pc = "idle")

(* C16: a post's scheduled_at is set exactly if its status is scheduled or
   processing. *)
C16_ScheduledAtIffScheduled ==
  \A p \in DOMAIN posts :
    (posts[p].scheduled_at # NULL) <=> (posts[p].status \in {"scheduled", "processing"})

(* C17: a post's published_at is set exactly if its status is published or
   partial. *)
C17_PublishedAtIffPublished ==
  \A p \in DOMAIN posts :
    (posts[p].published_at # NULL) <=> (posts[p].status \in {"published", "partial"})

(* The target platforms of a post *)
Targets(p) == IF posts[p].platforms.array THEN Range(posts[p].platforms.items) ELSE {}

(* C18: the platform_posts rows of a post are one for each of its target
   platforms and no other. *)
C18_OneRowPerTarget == \A p \in DOMAIN posts : DOMAIN pp[p] = Targets(p)

(* C19: a step of publishPost changes no platform_posts row but the row of
   the post and platform it is handling; rows are neither added nor removed. *)
C19_OnlyOwnRow ==
  [][\A p \in DOMAIN pp :
       /\ DOMAIN pp'[p] = DOMAIN pp[p]
       /\ \A q \in DOMAIN pp[p] :
            pp'[p][q] # pp[p][q] =>
              \E x \in DOMAIN h :
                /\ HandlingPlatform(x)
                /\ h[x].post.id = p
                /\ CurrentPlatform(x) = q
                /\ h'[x].k = h[x].k + 1]_vars

(* publishPost is between two platforms of a post: the row of an adapter that
   raised is failed, a row of the same post and the rows of the other post
   are as they were created *)
C19_Witness ==
  \E x \in DOMAIN h :
    /\ HandlingPlatform(x) /\ h[x].k > 1
    /\ LET id == h[x].post.id
           q == h[x].post.platforms.items[h[x].k - 1]
       IN  /\ RealCall(q)
           /\ pp[id][q].status = "failed"
           /\ pp[id][CurrentPlatform(x)].status = "pending"
           /\ \E p \in DOMAIN pp \ {id} :
                DOMAIN pp[p] # {} /\ \A r \in DOMAIN pp[p] : pp[p][r].status = "pending"

(* C20: when publishPost returns, the row of every target platform is
   published if the platform's outcome is a success and failed if it is not;
   none is left pending. *)
C20_RowsAgreeWithOutcomes ==
  [][\A x \in DOMAIN h :
       (h[x].pc = "publish" /\ h'[x].pc = "returned") =>
         \A q \in Range(h[x].post.platforms.items) \cap DOMAIN pp[h[x].post.id] :
           pp'[h[x].post.id][q].status = IF h'[x].results[q] THEN "published" ELSE "failed"]_vars

(* C21: a due post with platforms twitter and instagram and no media, with
   accounts for both, whose twitter call succeeds: when the tick writes the
   final status the post is partial with published_at set, the twitter row is
   published with an external id, and the instagram row is failed with the
   message about the missing image. *)
C21_TwitterAndInstagramNoMedia ==
  [][\A t \in Ticks :
       (/\ h[t].pc = "returned" /\ h'[t].pc # "returned"
        /\ h[t].post.platforms = Arr(<<"twitter", "instagram">>)
        /\ ~h[t].post.media
        /\ accounts["twitter"] # None /\ accounts["instagram"] # None
        /\ h[t].results["twitter"]) =>
         LET id == h[t].post.id
         IN  /\ posts'[id].status = "partial"
             /\ posts'[id].published_at = now
             /\ pp'[id]["twitter"].status = "published" /\ pp'[id]["twitter"].extId
             /\ pp'[id]["instagram"].status = "failed"
             /\ pp'[id]["instagram"].err = "Instagram requires at least one image"]_vars

(* The tick is past such a post: it is partial, stamped, with one row
   published and one failed *)
C21_Witness ==
  \E p \in DOMAIN posts :
    /\ posts[p].platforms = Arr(<<"twitter", "instagram">>)
    /\ ~posts[p].media
    /\ posts[p].status = "partial" /\ posts[p].published_at = now
    /\ pp[p]["twitter"].status = "published"
    /\ pp[p]["instagram"].status = "failed"

(* C22: a schedule or reschedule request changes the post only if it carries
   a time later than now, and then sets status scheduled and that
   scheduled_at and nothing else; otherwise the post is unchanged. *)
C22_FutureTimeOnly ==
  [][\A p \in DOMAIN posts, t \in TimeInputs :
       (Schedule(p, t) \/ Reschedule(p, t)) =>
         \/ posts' = posts
         \/ /\ t \in 0..MaxTime /\ t > now
            /\ posts' = [posts EXCEPT ![p].status = "scheduled", ![p].scheduled_at = t]]_vars

(* C23: an unschedule request for a scheduled post sets its status to draft
   and clears scheduled_at, changing nothing else; for a post in any other
   status it changes nothing. *)
C23_UnscheduleOnlyScheduled ==
  [][\A p \in DOMAIN posts :
       Unschedule(p) =>
         IF posts[p].status = "scheduled"
           THEN posts' = [posts EXCEPT ![p].status = "draft", ![p].scheduled_at = NULL]
           ELSE posts' = posts]_vars

(* A post, created as scheduled, is a draft without a time: it was
   unscheduled *)
C23_Witness ==
  \E p \in DOMAIN posts : posts[p].status = "draft" /\ posts[p].scheduled_at = NULL

(* The planner has just answered for post p *)
Planned(p) ==
  /\ posts[p].status = "scheduled"
  /\ posts[p].platforms.array
  /\ planned.scheduledAt = posts[p].scheduled_at
  /\ Len(planned.recommendations) = Len(posts[p].platforms.items)

(* C24: with best days {Tuesday} and best hours {9} and now on a Wednesday,
   the slot of the platform is 09:00 on the Tuesday six days later. *)
C24_NextTuesdayAtNine ==
  \A p \in DOMAIN posts :
    (/\ Planned(p)
     /\ posts[p].platforms.items = <<"facebook">>
     /\ getOptimalPostingTimes("facebook") = [bestDays |-> {"Tuesday"}, bestHours |-> <<9>>]
     /\ dayName(now \div 24) = "Wednesday") =>
      /\ planned.recommendations[1].time = ((now \div 24) + 6) * 24 + 9
      /\ dayName(planned.recommendations[1].time \div 24) = "Tuesday"

(* The planner has answered for such a table on a Wednesday afternoon *)
C24_Witness ==
  \E p \in DOMAIN posts :
    /\ Planned(p)
    /\ posts[p].platforms.items = <<"facebook">>
    /\ getOptimalPostingTimes("facebook") = [bestDays |-> {"Tuesday"}, bestHours |-> <<9>>]
    /\ now = 2 * 24 + 15

(* The least of the slots of the listed platforms *)
MinSlot(platforms, t) ==
  CHOOSE m \in {getNextOptimalSlot(platforms[j], t) : j \in 1..Len(platforms)} :
    \A j \in 1..Len(platforms) : m <= getNextOptimalSlot(platforms[j], t)

(* C25: for a non-empty list of platforms the optimal-time request writes as
   scheduled_at the least of the slots getNextOptimalSlot gives for each
   listed platform, sets the status to scheduled and returns that same time
   as scheduledAt. *)
C25_EarliestOfPlatformSlots ==
  [][\A p \in DOMAIN posts :
       (/\ ScheduleOptimal(p)
        /\ posts[p].status # "published"
        /\ posts[p].platforms.array
        /\ posts[p].platforms.items # <<>>) =>
         LET m == MinSlot(posts[p].platforms.items, now)
         IN  /\ posts'[p].scheduled_at = m
             /\ posts'[p].status = "scheduled"
             /\ planned'.scheduledAt = m]_vars

(* A post of three platforms is planned at the slot of the second, which is
   before the slots of the first and of the last *)
C25_Witness ==
  \E p \in DOMAIN posts :
    /\ Planned(p)
    /\ Len(planned.recommendations) = 3
    /\ planned.scheduledAt = planned.recommendations[2].time
    /\ planned.scheduledAt < planned.recommendations[1].time
    /\ planned.scheduledAt < planned.recommendations[3].time

(* Hour u is a best hour of a best day of the table *)
IsBestSlot(optimal, u) ==
  dayName(u \div 24) \in optimal.bestDays /\ (u % 24) \in Range(optimal.bestHours)

(* C26: for each platform's table and every now, the slot recommended for
   the platform is later than now, on a best day at a best hour, and no best
   hour of a best day lies between now and it. *)
C26_EarliestBestSlot ==
  \A p \in DOMAIN posts :
    Planned(p) =>
      \A j \in 1..Len(planned.recommendations) :
        LET r == planned.recommendations[j]
            optimal == getOptimalPostingTimes(r.platform)
        IN  /\ r.time > now
            /\ IsBestSlot(optimal, r.time)
            /\ \A u \in (now + 1)..(r.time - 1) : ~IsBestSlot(optimal, u)

(* instagram planned on a Friday after its last best hour: the slot is the
   Monday three days on *)
C26_Witness ==
  \E p \in DOMAIN posts :
    /\ Planned(p)
    /\ dayName(now \div 24) = "Friday"
    /\ \E j \in 1..Len(planned.recommendations) :
         /\ planned.recommendations[j].platform = "instagram"
         /\ planned.recommendations[j].time = ((now \div 24) + 3) * 24 + 11

(* The recommendation r was found by the scan of dayOffset 0 to 6 *)
FoundByScan(r) ==
  LET optimal == getOptimalPostingTimes(r.platform)
  IN  \E c \in scanHits(optimal, now, 6) : r.time = slotTime(optimal, now, c[1], c[2])

(* C27, as claimed: for every table with best days and best hours and every
   now, the scan of dayOffset 0 to 6 finds the slot; the fallback is never
   taken. *)
C27_ScanAlwaysFinds ==
  \A p \in DOMAIN posts :
    Planned(p) => \A j \in 1..Len(planned.recommendations) : FoundByScan(planned.recommendations[j])

(* C27, as amended: for a table of two or more best days, as each table of
   the program is, the scan finds the slot for every now.  For a table of one
   best day the scan finds none when now is on that day at or after its last
   best hour, and the slot is then the day after at the first best hour,
   which is not a best day. *)
C27_ScanFindsWithTwoBestDays ==
  \A p \in DOMAIN posts :
    Planned(p) =>
      \A j \in 1..Len(planned.recommendations) :
        LET r == planned.recommendations[j]
            optimal == getOptimalPostingTimes(r.platform)
            lastHour == optimal.bestHours[Len(optimal.bestHours)]
        IN  /\ Cardinality(optimal.bestDays) >= 2 => FoundByScan(r)
            /\ (/\ optimal.bestDays = {dayName(now \div 24)}
                /\ (now % 24) >= lastHour) =>
                 /\ ~FoundByScan(r)
                 /\ r.time = ((now \div 24) + 1) * 24 + optimal.bestHours[1]
                 /\ dayName(r.time \div 24) \notin optimal.bestDays

(* facebook with Tuesday as its one best day, planned on a Tuesday afternoon
   for the Wednesday *)
C27_Witness ==
  \E p \in DOMAIN posts :
    /\ Planned(p)
    /\ getOptimalPostingTimes("facebook").bestDays = {"Tuesday"}
    /\ dayName(now \div 24) = "Tuesday" /\ (now % 24) = 14
    /\ planned.recommendations[1].platform = "facebook"
    /\ planned.recommendations[1].time = ((now \div 24) + 1) * 24 + 9

(* publishPost is about to call the adapter of platform q for handler x with
   no real credential: the account's token is the demo token or the
   platform's key is not in the environment *)
DemoCall(x, q) ==
  /\ running = x /\ h[x].pc = "publish" /\ HandlingPlatform(x)
  /\ q = CurrentPlatform(x)
  /\ q \in platformClients
  /\ accounts[q] # None
  /\ (accounts[q] = "demo" \/ q \notin envKeys)

(* C28, as claimed: without a real credential the adapter of every platform
   returns success with an external id and makes no network call, whatever
   the media list. *)
C28_DemoAlwaysSucceeds ==
  [][\A x \in DOMAIN h, q \in platformClients :
       DemoCall(x, q) =>
         /\ h'[x].pc = "publish"
         /\ q \in DOMAIN h'[x].results /\ h'[x].results[q]
         /\ pp'[h[x].post.id][q].status = "published" /\ pp'[h[x].post.id][q].extId]_vars

(* C28, as amended: without a real credential no adapter makes a network
   call; facebook, linkedin and twitter return success with an external id,
   and so does instagram when the post has media; instagram without media
   returns success = false and its row is failed. *)
C28_DemoSucceedsButInstagramWithoutMedia ==
  [][\A x \in DOMAIN h, q \in platformClients :
       DemoCall(x, q) =>
         LET id == h[x].post.id
         IN  /\ h'[x].pc = "publish"
             /\ h'[x].k = h[x].k + 1
             /\ q \in DOMAIN h'[x].results
             /\ IF q = "instagram" /\ ~h[x].post.media
                  THEN ~h'[x].results[q] /\ pp'[id][q].status = "failed"
                  ELSE /\ h'[x].results[q]
                       /\ pp'[id][q].status = "published" /\ pp'[id][q].extId]_vars

(* A facebook account whose token is real while the key is absent has a
   published row, and publishPost is past instagram with media under the demo
   token: its outcome is a success and its row is published *)
C28_Witness ==
  /\ accounts["facebook"] = "real" /\ "facebook" \notin envKeys
  /\ accounts["instagram"] = "demo"
  /\ \E p \in DOMAIN pp :
       "facebook" \in DOMAIN pp[p] /\ pp[p]["facebook"].status = "published"
  /\ \E x \in DOMAIN h :
       /\ "instagram" \in DOMAIN h[x].results /\ h[x].results["instagram"]
       /\ h[x].post.media
       /\ pp[h[x].post.id]["instagram"].status = "published"

(* C29: each platform has at most one active account of the user, so the
   account publishPost uses for a platform is determined. *)
C29_OneActiveAccountPerPlatform ==
  \A q \in AllPlatforms : Cardinality(ActiveRows(q)) <= 1

(* C30: when a tick that selected every due post returns, with no post
   created or rescheduled and the clock where it was, the selection of due
   posts is empty. *)
C30_NothingDueAfterDispatch ==
  [][\A t \in Ticks : TickCompletes(t) => (DuePosts(now) = {})' /\ (SelectDue(now) = {<<>>})']_vars

(* A tick has returned after dispatching two posts: none is due, one has
   failed on every platform and one is published *)
C30_Witness ==
  /\ \A t \in Ticks : ~InFlight(t)
  /\ DuePosts(now) = {}
  /\ \E p, r \in DOMAIN posts :
       /\ posts[p].status = "failed" /\ posts[p].platforms.array /\ IsDue(p)
       /\ posts[r].status = "published" /\ IsDue(r)

(* C31: a tick that ends with an error does not end the timer: the callback
   catches the error, no handler has exited, and a post that is scheduled and
   due when the tick has failed is selected by a later tick. *)
C31_FailedTickIsRetried ==
  /\ [](\A t \in TickIds : h[t].pc # "exited")
  /\ \A p \in 1..OverlapPosts :
       ((\E t \in TickIds : h[t].caught) /\ posts[p].status = "scheduled" /\ IsDue(p))
         ~> (\E t \in TickIds : InFlight(t) /\ p \in SelIds(t))

(* A tick has failed on its first post, and the post selected after it is in
   the selection of the tick that runs now *)
C31_Witness ==
  \E t, u \in Ticks :
    /\ h[t].caught /\ h[t].pc = "idle"
    /\ InFlight(u)
    /\ \E p, r \in DOMAIN posts :
         /\ posts[p].status = "failed" /\ posts[p].platforms.array /\ p \notin SelIds(u)
         /\ r \in SelIds(u) /\ r # p

(* C32: the tick writes a post's final status after publishPost has an
   outcome for every target platform of the post, and once per dispatch: the
   write after publishPost ends the dispatch, and the catch, which writes
   failed, is entered only from a dispatch that has written no final status. *)
C32_FinalStatusOnceAfterOutcomes ==
  [][\A t \in Ticks :
       /\ (h[t].pc = "returned" /\ h'[t].pc # "returned") =>
            /\ DOMAIN h[t].results = Range(h[t].post.platforms.items)
            /\ posts'[h[t].post.id].status \in Final
            /\ h'[t].pc \in {"claim", "idle"}
       /\ (h[t].pc # "catch" /\ h'[t].pc = "catch") => h[t].pc = "claim"]_vars

(* The step on which tick t claims the post at place i of its selection *)
TickClaims(t) == h[t].pc = "claim" /\ h'[t].pc # "claim"

(* C33: within one tick the selected posts are claimed one after another in
   ascending order of scheduled_at: when the tick claims a post, every
   selected post with a smaller scheduled_at comes before it in the
   selection, and every post before it has its final status and its entry in
   the tick's results. *)
C33_ClaimedInAscendingOrder ==
  [][\A t \in Ticks :
       TickClaims(t) =>
         LET i == h[t].i
             at(j) == posts[h[t].sel[j].id]
         IN  /\ \A j \in 1..Len(h[t].sel) :
                  at(j).scheduled_at < at(i).scheduled_at => j < i
             /\ \A j \in 1..(i - 1) : at(j).status \in Final
             /\ h[t].n = i - 1
             /\ posts'[h[t].sel[i].id].status = "processing"]_vars

(* The tick is at the third post of a selection whose rows were inserted
   latest first: the two posts with smaller scheduled_at, of larger id, have
   their final status, the ones after it are still scheduled *)
C33_Witness ==
  \E t \in Ticks :
    /\ h[t].pc \in {"publish", "await"} /\ h[t].i = 3
    /\ h[t].sel[1].id > h[t].sel[2].id /\ h[t].sel[2].id > h[t].sel[3].id
    /\ posts[h[t].sel[1].id].status \in Final /\ posts[h[t].sel[2].id].status \in Final
    /\ posts[h[t].sel[3].id].status = "processing"
    /\ \A j \in 4..Len(h[t].sel) : posts[h[t].sel[j].id].status = "scheduled"

(* C34: while a post is processing, no request changes its status or its
   scheduled_at or starts a dispatch of it: its status and scheduled_at change
   only on the step on which a tick that dispatches it writes its final
   status, and no publish-now request enters publishPost for it. *)
C34_ProcessingIsUntouchedByRequests ==
  [][\A p \in DOMAIN posts :
       posts[p].status = "processing" =>
         /\ (posts'[p].status # "processing" \/ posts'[p].scheduled_at # posts[p].scheduled_at) =>
              \E t \in Ticks : h[t].post.id = p /\ TickWritesFinal(t)
         /\ \A r \in PubIds \cap DOMAIN h :
              ~(h[r].pc = "idle" /\ h'[r].pc = "publish" /\ h'[r].post.id = p)]_vars

(* C35: a platform_posts row has an external post id exactly if its status
   is published, and an error message exactly if its status is failed. *)
C35_IdIffPublishedErrorIffFailed ==
  \A p \in DOMAIN pp :
    \A q \in DOMAIN pp[p] :
      /\ pp[p][q].extId <=> (pp[p][q].status = "published")
      /\ (pp[p][q].err # "") <=> (pp[p][q].status = "failed")

(* Post p is processing and no tick under way has selected it: the process
   stopped between the claim of p and the write of its final status *)
Orphaned(p) ==
  /\ posts[p].status = "processing"
  /\ \A t \in Ticks : InFlight(t) => (p \notin SelIds(t) /\ h[t].post.id # p)

(* C36: a post left in processing by a process that stopped is changed by no
   tick after the restart: no tick selects it, and it and its rows stay as
   they are. *)
C36_OrphanedStaysProcessing ==
  [][\A p \in DOMAIN posts :
       Orphaned(p) =>
         /\ posts'[p] = posts[p]
         /\ pp'[p] = pp[p]
         /\ \A t \in Ticks : p \notin SelIds(t)' /\ (InFlight(t)' => h'[t].post.id # p)]_vars

(* After a restart a tick is dispatching one post while the other, long due,
   is still processing and not in the tick's selection *)
C36_Witness ==
  \E p \in DOMAIN posts, t \in Ticks :
    /\ Orphaned(p) /\ IsDue(p)
    /\ h[t].pc \in {"publish", "await"}
    /\ posts[h[t].post.id].status = "processing"

(* C37: the status of a post agrees with its platform_posts rows: every row
   of a published post is published, a partial post has a published row and
   a failed row, and a failed post has no published row. *)
C37_StatusAgreesWithRows ==
  \A p \in DOMAIN posts :
    LET rows == {pp[p][q].status : q \in DOMAIN pp[p]}
    IN  /\ posts[p].status = "published" => rows \subseteq {"published"}
        /\ posts[p].status = "partial" => {"published", "failed"} \subseteq rows
        /\ posts[p].status = "failed" => "published" \notin rows

(* The step on which tick t makes its selection and starts on it *)
TickSelects(t) == h[t].pc = "idle" /\ h'[t].pc # "idle"

(* C38: with a timer that keeps firing and adapters that answer, every post
   that is scheduled and due gets a final status, also when more than Limit
   posts are due: a tick selects at most Limit posts, none of them later than
   a due post it leaves behind, the posts left behind stay scheduled, and a
   later tick takes them. *)
C38_EveryDuePostIsDispatched ==
  /\ [][\A t \in Ticks :
          TickSelects(t) =>
            /\ Len(h'[t].sel) <= Limit
            /\ \A p \in DuePosts(now) \ SelIds(t)' :
                 /\ Len(h'[t].sel) = Limit
                 /\ posts'[p].status = "scheduled"
                 /\ \A r \in SelIds(t)' : posts[r].scheduled_at <= posts[p].scheduled_at]_vars
  /\ \A p \in 1..(BatchPosts + 3) :
       (posts[p].status = "scheduled" /\ IsDue(p)) ~> (posts[p].status \in Final)

(* A second tick is dispatching the post the first tick left behind, and the
   Limit posts before it have their final status *)
C38_Witness ==
  \E t \in Ticks :
    /\ InFlight(t) /\ Len(h[t].sel) = 1
    /\ posts[h[t].sel[1].id].status = "processing"
    /\ Cardinality({p \in DOMAIN posts : IsDue(p) /\ posts[p].status \in Final}) = Limit

(* C39: an optimal-time request for a post whose platform list is empty
   writes nothing: status, scheduled_at and the answer of the last plan are
   as before.  When the request does change the post, a slot was computed
   for at least one platform, and the time written is one of the slots. *)
C39_EmptyListWritesNothing ==
  [][\A p \in DOMAIN posts :
       ScheduleOptimal(p) =>
         /\ (posts[p].platforms.array /\ posts[p].platforms.items = <<>>) =>
              (posts' = posts /\ planned' = planned)
         /\ posts'[p] # posts[p] =>
              /\ Len(planned'.recommendations) >= 1
              /\ \E j \in 1..Len(planned'.recommendations) :
                   posts'[p].scheduled_at = planned'.recommendations[j].time]_vars

(* A post that was planned and then edited to a draft without a time and
   with an empty platform list: the optimal-time request leaves it so *)
C39_Witness ==
  \E p \in DOMAIN posts :
    /\ posts[p].platforms = Arr(<<>>)
    /\ posts[p].status = "draft" /\ posts[p].scheduled_at = NULL
    /\ planned.scheduledAt # NULL

====
